---- MODULE Spec2Model ----
(***************************************************************************)
(* A model of src/nucleon_simulation.py: the nucleon list, the pairwise    *)
(* force laws, the fragment detector, the beta-decay transition and the    *)
(* main loop that drives them.                                             *)
(*                                                                         *)
(* Real numbers are fixed-point integers: a length of x units is the       *)
(* integer x * Scale.  A particle index is 1-based here (Python's 0-based  *)
(* index plus one); fragment ids keep Python's 0-based numbering.          *)
(***************************************************************************)
EXTENDS Integers, Sequences, FiniteSets, TLC

(* ------------------------------------------------------------------ *)
(* Bounds of the model                                                  *)
(* ------------------------------------------------------------------ *)

\* fixed-point resolution: integer steps per unit of length
Scale == 100
\* the particle counts, scaled down from the program's 12 and 16
INITIAL_PROTONS == 1
INITIAL_NEUTRONS == 2
\* main-loop iterations explored
MaxTicks == 2
\* input events and passed decay gates explored over one run
MaxEvents == 1
MaxGates == 2

(* ------------------------------------------------------------------ *)
(* Program constants                                                    *)
(* ------------------------------------------------------------------ *)

WIDTH == 200
HEIGHT == 200
NUCLEON_RADIUS == 2
STRONG_FORCE_RADIUS == 30
ELECTROSTATIC_CONSTANT == 40
STRONG_FORCE_CONSTANT == 10
\* SPRING_DAMPENING = 0.3, the fragment fraction 0.7, the distance floor 0.1,
\* the thresholds 1.5 and 1.2: in tenths
SPRING_DAMPENING_TENTHS == 3
FRAGMENT_FRACTION_TENTHS == 7
MIN_DISTANCE_TENTHS == 1
NEUTRON_RICH_THRESHOLD_TENTHS == 15
PROTON_RICH_THRESHOLD_TENTHS == 12
\* the literals of the force laws and of the decay conditions
ELECTROSTATIC_RADIUS == 100
NEAR_THRESHOLD == 8
ATTRACTION_RADIUS == 20
BOND_RADIUS == 15
BETA_MINUS_BOND_CEILING == 20
BETA_PLUS_BOND_CEILING == 15
SPAWN_RADIUS == 20
EFFECT_LIFETIME == 1

NumNucleons == INITIAL_PROTONS + INITIAL_NEUTRONS
Idx == 1..NumNucleons

(* ------------------------------------------------------------------ *)
(* Arithmetic                                                           *)
(* ------------------------------------------------------------------ *)

Abs(a) == IF a >= 0 THEN a ELSE -a

\* a / b for b > 0, rounded toward zero
Quot(a, b) == IF a >= 0 THEN a \div b ELSE -((-a) \div b)

Max(a, b) == IF a >= b THEN a ELSE b

Units(x) == x * Scale
Tenths(x) == (x * Scale) \div 10

RECURSIVE SqrtSearch(_, _, _)
SqrtSearch(s, lo, hi) ==
    IF lo >= hi THEN lo
    ELSE LET mid == (lo + hi + 1) \div 2
         IN IF mid * mid <= s THEN SqrtSearch(s, mid, hi)
                              ELSE SqrtSearch(s, lo, mid - 1)

\* floor of the square root
ISqrt(s) == SqrtSearch(s, 0, 46340)

VAdd(u, v) == <<u[1] + v[1], u[2] + v[2]>>
VSub(u, v) == <<u[1] - v[1], u[2] - v[2]>>
VNeg(u) == <<-u[1], -u[2]>>
Dot(u, v) == u[1] * v[1] + u[2] * v[2]
\* v * num / den
VScale(v, num, den) == <<Quot(v[1] * num, den), Quot(v[2] * num, den)>>

\* np.linalg.norm
Norm(v) == ISqrt(Dot(v, v))

\* math.exp(-distance/5), times ExpOne: the values at whole distances
\* 8 .. 20 (the only ones strong_force asks for), linear in between
ExpOne == 1000000
ExpTable == <<201897, 165299, 135335, 110803, 90718, 74274, 60810,
              49787, 40762, 33373, 27324, 22371, 18316>>

ExpNeg(distance) ==
    LET k == distance \div Scale
        r == distance % Scale
        a == ExpTable[k - NEAR_THRESHOLD + 1]
        b == ExpTable[k - NEAR_THRESHOLD + 2]
    IN a - ((a - b) * r) \div Scale

(* ------------------------------------------------------------------ *)
(* Nucleon                                                              *)
(* ------------------------------------------------------------------ *)

\* Nucleon.__init__
Nucleon(pos, vel, is_proton) ==
    [is_proton |-> is_proton, pos |-> pos, vel |-> vel,
     color |-> IF is_proton THEN "RED" ELSE "BLUE",
     fragment_id |-> 0, bond_strength |-> 0, neighbors |-> 0]

\* the `force` of electrostatic_force
ElectrostaticImpulse(delta, distance) ==
    LET mag == (ELECTROSTATIC_CONSTANT * Scale * Scale * Scale)
                   \div (distance * distance + Scale * Scale)
    IN VScale(delta, mag, distance)

\* other.vel += force * 0.5, the last statement of electrostatic_force
ElectrostaticRecoil(vel, force) == VAdd(vel, VScale(force, 1, 2))

electrostatic_force(ns, self, other) ==
    LET delta == VSub(ns[other].pos, ns[self].pos)
        distance == Max(Norm(delta), Tenths(MIN_DISTANCE_TENTHS))
    IN IF distance < Units(ELECTROSTATIC_RADIUS)
       THEN LET force == ElectrostaticImpulse(delta, distance)
            IN [ns EXCEPT ![self].vel = VSub(@, VScale(force, 1, 2)),
                          ![other].vel = ElectrostaticRecoil(@, force)]
       ELSE ns

\* variant: the mid-range impulse has the sign of the near one
StrongImpulse_Repel(delta, distance) ==
    IF distance < Units(NEAR_THRESHOLD)
    THEN VScale(delta, -STRONG_FORCE_CONSTANT * (Units(NEAR_THRESHOLD) - distance),
                distance)
    ELSE IF distance < Units(ATTRACTION_RADIUS)
    THEN VScale(delta, -((STRONG_FORCE_CONSTANT * Scale * ExpNeg(distance)) \div ExpOne),
                distance)
    ELSE <<0, 0>>

\* the `force` of strong_force, for a distance below STRONG_FORCE_RADIUS
StrongImpulse(delta, distance) ==
    IF distance < Units(NEAR_THRESHOLD)
    THEN VScale(delta, -STRONG_FORCE_CONSTANT * (Units(NEAR_THRESHOLD) - distance),
                distance)
    ELSE IF distance < Units(ATTRACTION_RADIUS)
    THEN VScale(delta, (STRONG_FORCE_CONSTANT * Scale * ExpNeg(distance)) \div ExpOne,
                distance)
    ELSE <<0, 0>>

\* damping = SPRING_DAMPENING * (1 - distance/STRONG_FORCE_RADIUS) * rel_vel
Damping(rel_vel, distance) ==
    VScale(rel_vel,
           SPRING_DAMPENING_TENTHS * (Units(STRONG_FORCE_RADIUS) - distance),
           10 * Units(STRONG_FORCE_RADIUS))

\* variant: the damping correction is added to both velocities
DampingRecoil_SameSign(vel, damping) == VAdd(vel, damping)

\* other.vel -= damping, the last statement of strong_force
DampingRecoil(vel, damping) == VSub(vel, damping)

strong_force(ns, self, other) ==
    LET delta == VSub(ns[other].pos, ns[self].pos)
        distance == Max(Norm(delta), Tenths(MIN_DISTANCE_TENTHS))
    IN IF distance < Units(STRONG_FORCE_RADIUS)
       THEN LET force == StrongImpulse(delta, distance)
                v1 == VAdd(ns[self].vel, VScale(force, 1, 2))
                v2 == VSub(ns[other].vel, VScale(force, 1, 2))
                rel_vel == VSub(v2, v1)
                damping == Damping(rel_vel, distance)
            IN [ns EXCEPT ![self].vel = VAdd(v1, damping),
                          ![other].vel = DampingRecoil(v2, damping)]
       ELSE ns

\* Nucleon.move: integrate, then wrap around the edges
move(n) ==
    LET p == VAdd(n.pos, n.vel)
    IN [n EXCEPT !.pos = <<p[1] % Units(WIDTH), p[2] % Units(HEIGHT)>>]

RECURSIVE NeighborScan(_, _, _, _, _)
NeighborScan(ns, self, other, neighbors, bond_strength) ==
    IF other > Len(ns) THEN [neighbors |-> neighbors, bond_strength |-> bond_strength]
    ELSE IF other = self THEN NeighborScan(ns, self, other + 1, neighbors, bond_strength)
    ELSE LET distance == Norm(VSub(ns[other].pos, ns[self].pos))
         IN IF distance < Units(STRONG_FORCE_RADIUS)
            THEN NeighborScan(ns, self, other + 1, neighbors + 1,
                     IF distance < Units(BOND_RADIUS)
                     THEN bond_strength + (Units(BOND_RADIUS) - distance)
                     ELSE bond_strength)
            ELSE NeighborScan(ns, self, other + 1, neighbors, bond_strength)

\* Nucleon.calculate_neighbors
calculate_neighbors(ns, self) ==
    LET r == NeighborScan(ns, self, 1, 0, 0)
    IN [ns EXCEPT ![self].neighbors = r.neighbors,
                  ![self].bond_strength = r.bond_strength]

(* ------------------------------------------------------------------ *)
(* Decay                                                                *)
(* ------------------------------------------------------------------ *)

FragmentMembers(ns, self) == {k \in 1..Len(ns) : ns[k].fragment_id = ns[self].fragment_id}
FragmentProtons(ns, self) == Cardinality({k \in FragmentMembers(ns, self) : ns[k].is_proton})
FragmentNeutrons(ns, self) == Cardinality(FragmentMembers(ns, self)) - FragmentProtons(ns, self)

\* variant: the neutron-richness test is left out
BetaMinusCondition_NoRatio(ns, self) ==
    /\ ~ns[self].is_proton
    /\ FragmentNeutrons(ns, self) > 0
    /\ ns[self].bond_strength < Units(BETA_MINUS_BOND_CEILING)

\* the condition of the beta-minus branch
BetaMinusCondition(ns, self) ==
    LET protons == FragmentProtons(ns, self)
        neutrons == FragmentNeutrons(ns, self)
    IN /\ ~ns[self].is_proton
       /\ neutrons > 0
       /\ (protons = 0 \/ 10 * neutrons > NEUTRON_RICH_THRESHOLD_TENTHS * protons)
       /\ ns[self].bond_strength < Units(BETA_MINUS_BOND_CEILING)

\* variant: the beta-plus branch uses the beta-minus ceiling
BetaPlusCondition_LooseCeiling(ns, self) ==
    LET protons == FragmentProtons(ns, self)
        neutrons == FragmentNeutrons(ns, self)
    IN /\ ns[self].is_proton
       /\ protons > 0
       /\ (neutrons = 0 \/ 10 * protons > PROTON_RICH_THRESHOLD_TENTHS * neutrons)
       /\ ns[self].bond_strength < Units(BETA_MINUS_BOND_CEILING)

\* the condition of the beta-plus branch
BetaPlusCondition(ns, self) ==
    LET protons == FragmentProtons(ns, self)
        neutrons == FragmentNeutrons(ns, self)
    IN /\ ns[self].is_proton
       /\ protons > 0
       /\ (neutrons = 0 \/ 10 * protons > PROTON_RICH_THRESHOLD_TENTHS * neutrons)
       /\ ns[self].bond_strength < Units(BETA_PLUS_BOND_CEILING)

NoDecay(ns) == [nucleons |-> ns, result |-> <<>>]

\* variant: the decay adds a proton and leaves the neutron in place
BetaMinusResult_Spawn(ns, self) ==
    [nucleons |-> Append(ns, Nucleon(ns[self].pos, ns[self].vel, TRUE)),
     result |-> <<[pos |-> ns[self].pos, type |-> "electron"]>>]

\* the result of the beta-minus branch
BetaMinusResult(ns, self) ==
    [nucleons |-> [ns EXCEPT ![self].is_proton = TRUE, ![self].color = "RED"],
     result |-> <<[pos |-> ns[self].pos, type |-> "electron"]>>]

\* variant: the beta-plus branch flips the particle and returns None
BetaPlusResult_NoEvent(ns, self) ==
    [nucleons |-> [ns EXCEPT ![self].is_proton = FALSE, ![self].color = "BLUE"],
     result |-> <<>>]

\* the result of the beta-plus branch
BetaPlusResult(ns, self) ==
    [nucleons |-> [ns EXCEPT ![self].is_proton = FALSE, ![self].color = "BLUE"],
     result |-> <<[pos |-> ns[self].pos, type |-> "positron"]>>]

\* Nucleon.check_decay; gate is the outcome of
\* random.random() <= BETA_DECAY_PROBABILITY.  The result is the nucleon list and
\* the returned value: <<>> for None, <<event>> for an event.
check_decay(ns, self, gate) ==
    IF ~gate THEN NoDecay(ns)
    ELSE IF FragmentNeutrons(ns, self) = 0 /\ FragmentProtons(ns, self) = 0
    THEN NoDecay(ns)
    ELSE IF BetaMinusCondition(ns, self) THEN BetaMinusResult(ns, self)
    ELSE IF BetaPlusCondition(ns, self) THEN BetaPlusResult(ns, self)
    ELSE NoDecay(ns)

\* DecayEffect.__init__
DecayEffect(pos) ==
    [pos |-> pos, lifetime |-> EFFECT_LIFETIME, radius |-> NUCLEON_RADIUS * 5]

\* variant: drawing does not use up the effect's lifetime
draw_Persist(e) == e

\* DecayEffect.draw
draw(e) == IF e.lifetime > 0 THEN [e EXCEPT !.lifetime = @ - 1] ELSE e

\* the effects on which draw() paints its circles: those with lifetime left
Painted(effects) == SelectSeq(effects, LAMBDA e : e.lifetime > 0)

\* the decay-effect pass of the main loop: draw every effect, drop the spent ones
DrawEffects(effects) ==
    SelectSeq([k \in 1..Len(effects) |-> draw(effects[k])], LAMBDA e : e.lifetime > 0)

(* ------------------------------------------------------------------ *)
(* Fragments                                                            *)
(* ------------------------------------------------------------------ *)

\* the adjacency test of detect_fragments
Adjacent(ns, a, b) ==
    /\ a # b
    /\ Norm(VSub(ns[a].pos, ns[b].pos))
           < (FRAGMENT_FRACTION_TENTHS * Units(STRONG_FORCE_RADIUS)) \div 10

\* variant: a visited neighbour is not pushed on the stack
RECURSIVE VisitNeighbors_NoPush(_, _, _, _)
VisitNeighbors_NoPush(ns, node, neighbor, st) ==
    IF neighbor > Len(ns) THEN st
    ELSE IF Adjacent(ns, node, neighbor) /\ neighbor \notin st.visited
    THEN VisitNeighbors_NoPush(ns, node, neighbor + 1,
             [visited |-> st.visited \cup {neighbor},
              stack |-> st.stack,
              component |-> Append(st.component, neighbor)])
    ELSE VisitNeighbors_NoPush(ns, node, neighbor + 1, st)

\* for neighbor in range(n): visit the unvisited neighbours of node
RECURSIVE VisitNeighbors(_, _, _, _)
VisitNeighbors(ns, node, neighbor, st) ==
    IF neighbor > Len(ns) THEN st
    ELSE IF Adjacent(ns, node, neighbor) /\ neighbor \notin st.visited
    THEN VisitNeighbors(ns, node, neighbor + 1,
             [visited |-> st.visited \cup {neighbor},
              stack |-> Append(st.stack, neighbor),
              component |-> Append(st.component, neighbor)])
    ELSE VisitNeighbors(ns, node, neighbor + 1, st)

\* while stack: pop a node and visit its neighbours
RECURSIVE Traverse(_, _)
Traverse(ns, st) ==
    IF st.stack = <<>> THEN st
    ELSE LET node == st.stack[Len(st.stack)]
             popped == [st EXCEPT !.stack = SubSeq(@, 1, Len(@) - 1)]
         IN Traverse(ns, VisitNeighbors(ns, node, 1, popped))

\* for i in range(n): start a component at every unvisited node
RECURSIVE ComponentsFrom(_, _, _, _)
ComponentsFrom(ns, i, visited, components) ==
    IF i > Len(ns) THEN components
    ELSE IF i \in visited THEN ComponentsFrom(ns, i + 1, visited, components)
    ELSE LET st == Traverse(ns, [visited |-> visited \cup {i}, stack |-> <<i>>,
                                 component |-> <<i>>])
         IN ComponentsFrom(ns, i + 1, st.visited, Append(components, st.component))

detect_fragments(ns) == IF ns = <<>> THEN <<>> ELSE ComponentsFrom(ns, 1, {}, <<>>)

\* variant: the members of a singleton fragment keep the id they had
RECURSIVE AssignFragmentIds_SkipSingletons(_, _, _)
AssignFragmentIds_SkipSingletons(ns, frags, k) ==
    IF k > Len(frags) THEN ns
    ELSE AssignFragmentIds_SkipSingletons(
             [m \in 1..Len(ns) |->
                 IF Len(frags[k]) > 1 /\ \E q \in 1..Len(frags[k]) : frags[k][q] = m
                 THEN [ns[m] EXCEPT !.fragment_id = k - 1] ELSE ns[m]],
             frags, k + 1)

\* for frag_id, fragment in enumerate(fragments): assign frag_id to its members
RECURSIVE AssignFragmentIds(_, _, _)
AssignFragmentIds(ns, frags, k) ==
    IF k > Len(frags) THEN ns
    ELSE AssignFragmentIds(
             [m \in 1..Len(ns) |->
                 IF \E q \in 1..Len(frags[k]) : frags[k][q] = m
                 THEN [ns[m] EXCEPT !.fragment_id = k - 1] ELSE ns[m]],
             frags, k + 1)

(* ------------------------------------------------------------------ *)
(* State                                                                *)
(* ------------------------------------------------------------------ *)

VARIABLES
    nucleons,        \* the list of Nucleon objects
    decay_effects,   \* the list of DecayEffect objects
    show_fragments,  \* toggled by the F key
    running,         \* cleared by the QUIT event
    fragments,       \* what detect_fragments returned in this iteration
    decay_result,    \* what the last nucleon.update returned: <<>> is None
    last_event,      \* the event handled last in this iteration, "none" if none yet
    pc,              \* the position in the main loop's body
    i,               \* the nucleon of the update loop
    j,               \* the `other` of apply_forces
    tick,            \* completed iterations of the main loop
    keys,            \* input events handled so far
    gates,           \* decay gates passed so far
    start,           \* history: the nucleon list when this iteration's updates began
    flips,           \* history: per nucleon, its charge-type changes in this iteration
    created,         \* history: the effects appended to decay_effects in this iteration
    drawn            \* history: the effects the last drawing pass painted

vars == <<nucleons, decay_effects, show_fragments, running, fragments, decay_result,
          last_event, pc, i, j, tick, keys, gates, start, flips, created, drawn>>

\* Sampled outcomes of the random draws of one nucleon's construction: a point
\* of the disc of radius 20 about the screen's centre and a velocity whose
\* components lie in [-0.1, 0.1].
SlotCandidates ==
    << [pos |-> <<Units(88), Units(115)>>, vel |-> <<0, 0>>],
       [pos |-> <<Units(88), Units(100)>>, vel |-> <<0, 0>>],
       [pos |-> <<Units(118), Units(100)>>, vel |-> <<0, 0>>],
       [pos |-> <<Units(108), Units(100)>>, vel |-> <<0, 0>>],
       [pos |-> <<Units(113), Units(108)>>, vel |-> <<-(Tenths(1) \div 2), Tenths(1)>>],
       [pos |-> <<Units(104), Units(100)>>, vel |-> <<0, 0>>],
       [pos |-> <<Units(109), Units(100)>>, vel |-> <<0, 0>>],
       [pos |-> <<Units(101), Units(100)>>, vel |-> <<Tenths(1), -Tenths(1)>>] >>

Centre == <<Units(WIDTH \div 2), Units(HEIGHT \div 2)>>

InSpawnRange(s) ==
    /\ Norm(VSub(s.pos, Centre)) <= Units(SPAWN_RADIUS)
    /\ \A c \in 1..2 : Abs(s.vel[c]) <= Tenths(1)

StartSlots == SelectSeq(SlotCandidates, InSpawnRange)

\* n nucleons take consecutive slots, from slot r on, in direction dir
Window(n, r, dir) ==
    [k \in 1..n |-> StartSlots[((r + dir * (k - 1)) % Len(StartSlots)) + 1]]

\* the sampled outcomes of a construction loop of n nucleons; the draws are
\* continuous, so no two nucleons are given the same point
PlacementsOf(n) ==
    { f \in {Window(n, r, dir) : r \in 0..(Len(StartSlots) - 1), dir \in {1, -1}} :
        \A a, b \in 1..n : a # b => f[a] # f[b] }

Placements == PlacementsOf(NumNucleons)

\* the construction loop: the first INITIAL_PROTONS nucleons are protons
Construct(f) == [k \in Idx |-> Nucleon(f[k].pos, f[k].vel, k <= INITIAL_PROTONS)]

NoFlips == [k \in Idx |-> 0]

Init ==
    /\ \E f \in Placements : nucleons = Construct(f)
    /\ decay_effects = <<>>
    /\ show_fragments = FALSE
    /\ running = TRUE
    /\ fragments = <<>>
    /\ decay_result = <<>>
    /\ last_event = "none"
    /\ pc = "events"
    /\ i = 0
    /\ j = 0
    /\ tick = 0
    /\ keys = 0
    /\ gates = 0
    /\ start = nucleons
    /\ flips = NoFlips
    /\ created = <<>>
    /\ drawn = <<>>

(* ------------------------------------------------------------------ *)
(* The main loop                                                        *)
(* ------------------------------------------------------------------ *)

\* event.type == pygame.QUIT
Quit ==
    /\ pc = "events" /\ tick < MaxTicks /\ keys < MaxEvents
    /\ running' = FALSE
    /\ last_event' = "quit"
    /\ keys' = keys + 1
    /\ UNCHANGED <<nucleons, decay_effects, show_fragments, fragments, decay_result,
                   pc, i, j, tick, gates, start, flips, created, drawn>>

\* event.key == pygame.K_f
KeyF ==
    /\ pc = "events" /\ tick < MaxTicks /\ keys < MaxEvents
    /\ show_fragments' = ~show_fragments
    /\ last_event' = "f"
    /\ keys' = keys + 1
    /\ UNCHANGED <<nucleons, decay_effects, running, fragments, decay_result,
                   pc, i, j, tick, gates, start, flips, created, drawn>>

\* variant: the reset makes one proton too many
ResetNucleons_OffByOne(f) ==
    [k \in Idx |-> Nucleon(f[k].pos, f[k].vel, k <= INITIAL_PROTONS + 1)]

\* the nucleon list the R key builds
ResetNucleons(f) == Construct(f)

\* event.key == pygame.K_r
KeyR ==
    /\ pc = "events" /\ tick < MaxTicks /\ keys < MaxEvents
    /\ \E f \in Placements : nucleons' = ResetNucleons(f)
    /\ decay_effects' = <<>>
    /\ last_event' = "r"
    /\ keys' = keys + 1
    /\ UNCHANGED <<show_fragments, running, fragments, decay_result,
                   pc, i, j, tick, gates, start, flips, created, drawn>>

\* fragments = detect_fragments(nucleons) and the fragment-id assignment
UpdateFragments ==
    /\ pc = "events" /\ tick < MaxTicks
    /\ fragments' = detect_fragments(nucleons)
    /\ nucleons' = AssignFragmentIds(nucleons, fragments', 1)
    /\ start' = nucleons'
    /\ flips' = NoFlips
    /\ last_event' = "none"
    /\ IF Len(nucleons) = 0 THEN pc' = "draw" /\ i' = 0 ELSE pc' = "neighbors" /\ i' = 1
    /\ j' = 0
    /\ created' = <<>>
    /\ drawn' = <<>>
    /\ UNCHANGED <<decay_effects, show_fragments, running, decay_result, tick, keys, gates>>

\* nucleon.update: self.calculate_neighbors(nucleons)
Neighbors ==
    /\ pc = "neighbors"
    /\ nucleons' = calculate_neighbors(nucleons, i)
    /\ pc' = "electrostatic"
    /\ j' = 1
    /\ UNCHANGED <<decay_effects, show_fragments, running, fragments, decay_result,
                   last_event, i, tick, keys, gates, start, flips, created, drawn>>

\* apply_forces, one `other`: the electrostatic_force call, made for two protons
Electrostatic ==
    /\ pc = "electrostatic"
    /\ nucleons' = IF j # i /\ nucleons[i].is_proton /\ nucleons[j].is_proton
                   THEN electrostatic_force(nucleons, i, j)
                   ELSE nucleons
    /\ pc' = "strong"
    /\ UNCHANGED <<decay_effects, show_fragments, running, fragments, decay_result,
                   last_event, i, j, tick, keys, gates, start, flips, created, drawn>>

\* apply_forces, one `other`: the strong_force call, then the next `other`
Strong ==
    /\ pc = "strong"
    /\ nucleons' = IF j # i THEN strong_force(nucleons, i, j) ELSE nucleons
    /\ IF j < Len(nucleons) THEN pc' = "electrostatic" /\ j' = j + 1
                            ELSE pc' = "move" /\ j' = 0
    /\ UNCHANGED <<decay_effects, show_fragments, running, fragments, decay_result,
                   last_event, i, tick, keys, gates, start, flips, created, drawn>>

\* nucleon.update: self.move()
Move ==
    /\ pc = "move"
    /\ nucleons' = [nucleons EXCEPT ![i] = move(@)]
    /\ pc' = "decay"
    /\ UNCHANGED <<decay_effects, show_fragments, running, fragments, decay_result,
                   last_event, i, j, tick, keys, gates, start, flips, created, drawn>>

\* decay_effects after the main loop has looked at decay_result
Collect(effects, result) ==
    IF result # <<>> THEN Append(effects, DecayEffect(result[1].pos)) ELSE effects

\* nucleon.update: return self.check_decay(nucleons), and the main loop's use of it
Decay ==
    /\ pc = "decay"
    /\ \E gate \in BOOLEAN :
         /\ gate => gates < MaxGates
         /\ gates' = IF gate THEN gates + 1 ELSE gates
         /\ LET r == check_decay(nucleons, i, gate)
            IN /\ nucleons' = r.nucleons
               /\ decay_result' = r.result
               /\ decay_effects' = Collect(decay_effects, r.result)
               /\ flips' = [flips EXCEPT ![i] =
                              IF r.nucleons[i].is_proton # nucleons[i].is_proton
                              THEN @ + 1 ELSE @]
    /\ IF i < Len(nucleons) THEN pc' = "neighbors" /\ i' = i + 1
                            ELSE pc' = "draw" /\ i' = 0
    /\ created' = created \o SubSeq(decay_effects', Len(decay_effects) + 1, Len(decay_effects'))
    /\ UNCHANGED <<show_fragments, running, fragments, last_event, j, tick, keys, start, drawn>>

\* the drawing passes, of which only the decay effects' changes state
Draw ==
    /\ pc = "draw"
    /\ decay_effects' = DrawEffects(decay_effects)
    /\ drawn' = Painted(decay_effects)
    /\ tick' = tick + 1
    /\ pc' = IF running THEN "events" ELSE "done"
    /\ UNCHANGED <<nucleons, show_fragments, running, fragments, decay_result,
                   last_event, i, j, keys, gates, start, flips, created>>

Next ==
    \/ Quit
    \/ KeyF
    \/ KeyR
    \/ UpdateFragments
    \/ Neighbors
    \/ Electrostatic
    \/ Strong
    \/ Move
    \/ Decay
    \/ Draw

Spec == Init /\ [][Next]_vars

(* ------------------------------------------------------------------ *)
(* detect_fragments and the id assignment on their own                  *)
(* ------------------------------------------------------------------ *)

\* the fragment ids a nucleon may carry from an earlier iteration
StaleIds == {0, 1}

\* any non-empty nucleon list of up to NumNucleons particles, each still
\* carrying some id of an earlier iteration
FragmentInit ==
    /\ \E n \in 1..NumNucleons : \E f \in PlacementsOf(n) : \E ids \in [1..n -> StaleIds] :
          nucleons = [k \in 1..n |->
                        [Nucleon(f[k].pos, f[k].vel, k <= INITIAL_PROTONS)
                            EXCEPT !.fragment_id = ids[k]]]
    /\ decay_effects = <<>>
    /\ show_fragments = FALSE
    /\ running = TRUE
    /\ fragments = <<>>
    /\ decay_result = <<>>
    /\ last_event = "none"
    /\ pc = "events"
    /\ i = 0
    /\ j = 0
    /\ tick = 0
    /\ keys = 0
    /\ gates = 0
    /\ start = nucleons
    /\ flips = NoFlips
    /\ created = <<>>
    /\ drawn = <<>>

FragmentNext == UpdateFragments

FragmentSpec == FragmentInit /\ [][FragmentNext]_vars

(* ------------------------------------------------------------------ *)
(* Properties                                                           *)
(* ------------------------------------------------------------------ *)

Protons(ns) == Cardinality({k \in 1..Len(ns) : ns[k].is_proton})
Neutrons(ns) == Cardinality({k \in 1..Len(ns) : ~ns[k].is_proton})

\* the distance of two nucleons, as every force law measures it
Distance(ns, a, b) == Norm(VSub(ns[b].pos, ns[a].pos))

\* a force call is being made for the pair (i, j)
AtForceCall == pc \in {"electrostatic", "strong"} /\ j # i

\* the update loop of this iteration is under way or just over
InUpdates == pc \in {"neighbors", "electrostatic", "strong", "move", "decay", "draw"}

\* C1: in every tick, every force call reads positions that no move() of the
\* same tick has changed: the two nucleons of the call are where they were when
\* the tick's updates began.
C1_ForcesReadPreMovePositions ==
    AtForceCall =>
        /\ nucleons[i].pos = start[i].pos
        /\ nucleons[j].pos = start[j].pos

\* C2: the number of particles never changes: protons plus neutrons is
\* INITIAL_PROTONS + INITIAL_NEUTRONS in every state, whatever ticks, decays,
\* fragment-view toggles and resets came before.
C2_ParticleCountFixed ==
    /\ Len(nucleons) = INITIAL_PROTONS + INITIAL_NEUTRONS
    /\ Protons(nucleons) + Neutrons(nucleons) = INITIAL_PROTONS + INITIAL_NEUTRONS

\* a decay has changed the composition, and the count is being looked at after it
C2_Witness ==
    /\ pc = "draw"
    /\ tick >= 1
    /\ Protons(nucleons) = INITIAL_PROTONS + 1
    /\ Len(decay_effects) = 1

\* C3: whatever came before, a handled reset event leaves exactly
\* INITIAL_PROTONS protons and INITIAL_NEUTRONS neutrons and no pending decay
\* effect.
C3_ResetRestoresComposition ==
    last_event = "r" =>
        /\ Protons(nucleons) = INITIAL_PROTONS
        /\ Neutrons(nucleons) = INITIAL_NEUTRONS
        /\ decay_effects = <<>>

\* a reset handled after a tick whose last update returned a decay event, with
\* a composition that was not the initial one when that tick's updates began
C3_Witness ==
    /\ last_event = "r"
    /\ tick >= 1
    /\ decay_result # <<>>
    /\ Protons(nucleons) = INITIAL_PROTONS
    /\ decay_effects = <<>>

\* the particles a chain of pairwise-adjacent particles connects to those of set
RECURSIVE ChainClosure(_, _)
ChainClosure(ns, set) ==
    LET more == set \cup {b \in 1..Len(ns) : \E a \in set : Adjacent(ns, a, b)}
    IN IF more = set THEN set ELSE ChainClosure(ns, more)

ChainConnected(ns, a, b) == b \in ChainClosure(ns, {a})

\* the fragment ids have just been assigned and no nucleon has moved since
FragmentsFresh == pc = "neighbors" /\ i = 1

\* C4: after detect_fragments and the fragment-id assignment, two particles
\* carry the same fragment id exactly when a chain of pairwise-adjacent
\* particles connects them.
C4_SameFragmentIffChain ==
    FragmentsFresh =>
        \A a, b \in 1..Len(nucleons) :
            (nucleons[a].fragment_id = nucleons[b].fragment_id)
                <=> ChainConnected(nucleons, a, b)

\* A and B adjacent, B and C adjacent, A and C not, and A and C share an id
C4_Witness ==
    /\ FragmentsFresh
    /\ \E a, b, c \in 1..Len(nucleons) :
          /\ Adjacent(nucleons, a, b)
          /\ Adjacent(nucleons, b, c)
          /\ a # c /\ ~Adjacent(nucleons, a, c)
          /\ nucleons[a].fragment_id = nucleons[c].fragment_id

\* the number of places of the components that hold particle m
Occurrences(frags, m) ==
    Cardinality({kq \in {<<k, q>> : k \in 1..Len(frags), q \in 1..NumNucleons} :
                    kq[2] <= Len(frags[kq[1]]) /\ frags[kq[1]][kq[2]] = m})

\* the nucleon list with every fragment id forgotten
WithoutIds(ns) == [k \in 1..Len(ns) |-> [ns[k] EXCEPT !.fragment_id = 0]]

\* C5: the components detect_fragments returns partition the particle indices
\* (every particle in exactly one component, no component empty), and the ids
\* assigned are exactly 0 .. k-1 for k components, each particle carrying the id
\* of its component, the same ids that the positions alone give.
C5_ComponentsPartitionDenseIds ==
    FragmentsFresh =>
        /\ \A m \in 1..Len(nucleons) : Occurrences(fragments, m) = 1
        /\ \A k \in 1..Len(fragments) : fragments[k] # <<>>
        /\ {nucleons[m].fragment_id : m \in 1..Len(nucleons)} = 0..(Len(fragments) - 1)
        /\ \A k \in 1..Len(fragments) : \A q \in 1..Len(fragments[k]) :
              nucleons[fragments[k][q]].fragment_id = k - 1
        /\ LET bare == WithoutIds(nucleons)
           IN AssignFragmentIds(bare, detect_fragments(bare), 1) = nucleons

\* a single particle: one component holding it, and the id 0
C5_Witness ==
    /\ FragmentsFresh
    /\ Len(nucleons) = 1
    /\ fragments = <<<<1>>>>
    /\ nucleons[1].fragment_id = 0

\* the composition of the fragment of particle self, by fragment id
FragmentOf(ns, self) == {m \in 1..Len(ns) : ns[m].fragment_id = ns[self].fragment_id}
ProtonsIn(ns, set) == Cardinality({m \in set : ns[m].is_proton})
NeutronsIn(ns, set) == Cardinality({m \in set : ~ns[m].is_proton})

\* the beta-minus condition as the specification words it
NeutronMayDecay(ns, self) ==
    LET frag == FragmentOf(ns, self)
    IN /\ ~ns[self].is_proton
       /\ NeutronsIn(ns, frag) >= 1
       /\ \/ ProtonsIn(ns, frag) = 0
          \/ 10 * NeutronsIn(ns, frag) > NEUTRON_RICH_THRESHOLD_TENTHS * ProtonsIn(ns, frag)
       /\ ns[self].bond_strength < Units(20)

\* the beta-plus condition as the specification words it
ProtonMayDecay(ns, self) ==
    LET frag == FragmentOf(ns, self)
    IN /\ ns[self].is_proton
       /\ ProtonsIn(ns, frag) >= 1
       /\ \/ NeutronsIn(ns, frag) = 0
          \/ 10 * ProtonsIn(ns, frag) > PROTON_RICH_THRESHOLD_TENTHS * NeutronsIn(ns, frag)
       /\ ns[self].bond_strength < Units(15)

\* the gate of this check_decay call was passed
GatePassed == gates' = gates + 1

\* C6: check_decay turns a neutron into a proton only if it is a neutron, its
\* fragment holds a neutron, the fragment has no proton or its neutron/proton
\* ratio exceeds NEUTRON_RICH_THRESHOLD, and its bond strength is below 20; and
\* when the gate is passed and these hold it becomes a proton and exactly one
\* event, of kind electron and at the particle's position, is returned and
\* collected.
C6_BetaMinus ==
    [][pc = "decay" =>
         LET self == i
             flipped == ~nucleons[self].is_proton /\ nucleons'[self].is_proton
         IN /\ flipped => NeutronMayDecay(nucleons, self)
            /\ (GatePassed /\ NeutronMayDecay(nucleons, self)) =>
                   /\ flipped
                   /\ decay_result' = <<[pos |-> nucleons[self].pos, type |-> "electron"]>>
                   /\ Len(decay_effects') = Len(decay_effects) + 1
                   /\ decay_effects'[Len(decay_effects')].pos = nucleons[self].pos
                   /\ \A m \in 1..Len(nucleons) :
                         m # self => nucleons'[m] = nucleons[m]]_vars

\* a lone neutron (no proton in its fragment, bond strength 0) has just become a
\* proton and the electron event at its position has been returned
C6_Witness ==
    \E k \in 1..Len(nucleons) :
        /\ flips[k] = 1
        /\ nucleons[k].is_proton /\ ~start[k].is_proton
        /\ FragmentOf(nucleons, k) = {k}
        /\ nucleons[k].bond_strength = 0
        /\ decay_result = <<[pos |-> nucleons[k].pos, type |-> "electron"]>>
        /\ (pc = "neighbors" /\ i = k + 1) \/ (pc = "draw" /\ k = Len(nucleons))

\* C7: check_decay turns a proton into a neutron only if it is a proton, its
\* fragment holds a proton, the fragment has no neutron or its proton/neutron
\* ratio exceeds PROTON_RICH_THRESHOLD, and its bond strength is below 15, a
\* ceiling lower than the beta-minus one; and when the gate is passed and these
\* hold it becomes a neutron and exactly one event, of kind positron and at the
\* particle's position, is returned and collected.
C7_BetaPlus ==
    [][pc = "decay" =>
         LET self == i
             flipped == nucleons[self].is_proton /\ ~nucleons'[self].is_proton
         IN /\ BETA_PLUS_BOND_CEILING < BETA_MINUS_BOND_CEILING
            /\ flipped => ProtonMayDecay(nucleons, self)
            /\ (GatePassed /\ ProtonMayDecay(nucleons, self)) =>
                   /\ flipped
                   /\ decay_result' = <<[pos |-> nucleons[self].pos, type |-> "positron"]>>
                   /\ Len(decay_effects') = Len(decay_effects) + 1
                   /\ decay_effects'[Len(decay_effects')].pos = nucleons[self].pos
                   /\ \A m \in 1..Len(nucleons) :
                         m # self => nucleons'[m] = nucleons[m]]_vars

\* a proton of a fragment of two protons and one neutron has just become a
\* neutron and the positron event at its position has been returned
C7_Witness ==
    \E k \in 1..Len(nucleons) :
        /\ flips[k] = 1
        /\ ~nucleons[k].is_proton /\ start[k].is_proton
        /\ Cardinality(FragmentOf(nucleons, k)) = 3
        /\ ProtonsIn(nucleons, FragmentOf(nucleons, k)) = 1
        /\ decay_result = <<[pos |-> nucleons[k].pos, type |-> "positron"]>>
        /\ (pc = "neighbors" /\ i = k + 1) \/ (pc = "draw" /\ k = Len(nucleons))

RECURSIVE SumFlips(_)
SumFlips(k) == IF k = 0 THEN 0 ELSE flips[k] + SumFlips(k - 1)

\* the flips and the collected events of the tick under way: no particle has
\* flipped more than once or flipped back, none has flipped before its own
\* update, and one event has been collected per flip
TickAccounting ==
    InUpdates =>
        /\ \A k \in 1..Len(nucleons) :
              /\ flips[k] <= 1
              /\ (flips[k] = 1) <=> (nucleons[k].is_proton # start[k].is_proton)
              /\ (pc # "draw" /\ k >= i) => flips[k] = 0
        /\ Len(decay_effects) = SumFlips(Len(nucleons))

\* C8: in one tick each particle changes charge-type at most once, and only in
\* its own update; a check_decay call whose gate is not passed, or that finds
\* neither decay condition to hold, changes no charge-type and returns no
\* event; so the events collected in a tick are as many as the flips of the tick.
C8_OneTransitionPerTick ==
    [][/\ pc = "decay" =>
            ((~GatePassed \/ (~NeutronMayDecay(nucleons, i) /\ ~ProtonMayDecay(nucleons, i)))
                => /\ nucleons' = nucleons
                   /\ decay_result' = <<>>
                   /\ decay_effects' = decay_effects)
       /\ TickAccounting']_vars

\* two particles have flipped in one tick, a third has not, and two events are
\* pending
C8_Witness ==
    /\ pc = "draw"
    /\ SumFlips(Len(nucleons)) = 2
    /\ Len(decay_effects) = 2
    /\ \E k \in 1..Len(nucleons) : flips[k] = 0

\* the pair of the strong_force call being made: separation and distance
PairDelta == VSub(nucleons[j].pos, nucleons[i].pos)
PairDistance == Max(Norm(PairDelta), Tenths(MIN_DISTANCE_TENTHS))
\* the two have the same velocity before the call
PairAtRelativeRest == nucleons[i].vel = nucleons[j].vel
\* the velocity changes of the call
DeltaVel(k) == VSub(nucleons'[k].vel, nucleons[k].vel)

\* the scenario: a proton a and a neutron b at rest 15 units apart when the
\* tick's updates begin, every other particle a neutron out of reach of both,
\* and no decay in the tick
ScenarioPair(a, b) ==
    /\ a # b
    /\ start[a].is_proton /\ ~start[b].is_proton
    /\ start[a].vel = <<0, 0>> /\ start[b].vel = <<0, 0>>
    /\ Distance(start, a, b) = Units(15)
    /\ \A c \in 1..Len(start) :
          c \notin {a, b} =>
              /\ ~start[c].is_proton
              /\ Distance(start, a, c) >= Units(STRONG_FORCE_RADIUS)
              /\ Distance(start, b, c) >= Units(STRONG_FORCE_RADIUS)
    /\ SumFlips(Len(nucleons)) = 0

\* a tick has just ended and no reset has been handled since
TickJustEnded == pc \in {"events", "done"} /\ tick >= 1 /\ last_event # "r"

ScenarioCloser ==
    TickJustEnded =>
        \A a, b \in 1..Len(nucleons) :
            ScenarioPair(a, b) => Distance(nucleons, a, b) < Units(15)

\* C9, as stated: the impulse of strong_force is repulsive below the near
\* threshold and attractive for every distance from the near threshold up to
\* STRONG_FORCE_RADIUS.
C9_AttractiveUpToRadius ==
    (pc = "strong" /\ j # i) =>
        LET force == StrongImpulse(PairDelta, PairDistance)
        IN /\ (PairDelta # <<0, 0>> /\ PairDistance < Units(NEAR_THRESHOLD))
                 => Dot(force, PairDelta) < 0
           /\ (Units(NEAR_THRESHOLD) <= PairDistance
                   /\ PairDistance < Units(STRONG_FORCE_RADIUS))
                 => Dot(force, PairDelta) > 0

\* C9, amended: the impulse is repulsive for 0 < d < 8, larger at half the
\* separation when d >= 0.1; attractive for 8 <= d < 20; zero for
\* 20 <= d < 30, where only the damping correction acts; and a call at
\* d >= 30 changes no velocity.  A pair that had the same velocity before the
\* call is pushed apart, pulled together, or left alone accordingly.  A proton
\* and a neutron at rest 15 apart, out of reach of every other particle, are
\* closer after one tick without decays.
C9_StrongForceRegimes ==
    [][/\ (pc = "strong" /\ j # i) =>
            LET force == StrongImpulse(PairDelta, PairDistance)
                half == VScale(PairDelta, 1, 2)
            IN /\ (PairDelta # <<0, 0>> /\ PairDistance < Units(NEAR_THRESHOLD)) =>
                      /\ Dot(force, PairDelta) < 0
                      /\ PairAtRelativeRest =>
                            /\ Dot(DeltaVel(i), PairDelta) < 0
                            /\ Dot(DeltaVel(j), PairDelta) > 0
                      /\ Norm(half) >= Tenths(MIN_DISTANCE_TENTHS) =>
                            Norm(StrongImpulse(half, Norm(half))) > Norm(force)
               /\ (Units(NEAR_THRESHOLD) <= PairDistance
                       /\ PairDistance < Units(20)) =>
                      /\ Dot(force, PairDelta) > 0
                      /\ PairAtRelativeRest =>
                            /\ Dot(DeltaVel(i), PairDelta) > 0
                            /\ Dot(DeltaVel(j), PairDelta) < 0
               /\ (Units(20) <= PairDistance
                       /\ PairDistance < Units(STRONG_FORCE_RADIUS)) =>
                      /\ force = <<0, 0>>
                      /\ PairAtRelativeRest => nucleons' = nucleons
               /\ PairDistance >= Units(STRONG_FORCE_RADIUS) => nucleons' = nucleons
       /\ ScenarioCloser']_vars

\* the scenario has run for one tick and the two are closer
C9_Witness ==
    /\ TickJustEnded
    /\ \E a, b \in 1..Len(nucleons) :
          ScenarioPair(a, b) /\ Distance(nucleons, a, b) < Units(15)

RECURSIVE SumVel(_, _)
SumVel(ns, k) == IF k = 0 THEN <<0, 0>> ELSE VAdd(ns[k].vel, SumVel(ns, k - 1))

\* C10: one call of electrostatic_force or of strong_force changes the two
\* velocities by equal and opposite amounts and no third particle's velocity;
\* so throughout a tick the sum of all velocities is what it was when the
\* tick's updates began.
C10_MomentumNeutral ==
    [][/\ AtForceCall =>
            /\ VAdd(DeltaVel(i), DeltaVel(j)) = <<0, 0>>
            /\ \A k \in 1..Len(nucleons) :
                  k \notin {i, j} => nucleons'[k].vel = nucleons[k].vel
       /\ InUpdates' => SumVel(nucleons', Len(nucleons')) = SumVel(start', Len(start'))]_vars

\* an electrostatic call between two protons has changed both velocities, and a
\* strong call is about to follow
C10_Witness ==
    /\ pc = "strong" /\ j # i
    /\ nucleons[i].is_proton /\ nucleons[j].is_proton
    /\ nucleons[i].vel # start[i].vel
    /\ nucleons[j].vel # start[j].vel
    /\ Distance(nucleons, i, j) < Units(STRONG_FORCE_RADIUS)

\* an iteration of the main loop has run to its end
TickOver == pc \in {"events", "done"} /\ tick >= 1

\* C11: every decay event created in a tick is drawn exactly once, in that
\* same tick, and is then discarded.  Between ticks the list of pending
\* effects is empty, and the effects the tick's drawing pass painted are
\* exactly the effects the tick created, each one once.  Within a tick the
\* list holds the effects this tick created and no others, none of them drawn
\* yet, so no effect is drawn in two ticks and none stays in the list undrawn.
C11_EffectsDrawnOnceThenDiscarded ==
    /\ pc \in {"events", "done"} => decay_effects = <<>>
    /\ TickOver => drawn = created
    /\ InUpdates =>
          /\ decay_effects = created
          /\ \A k \in 1..Len(decay_effects) : decay_effects[k].lifetime = 1

\* a tick in which two nucleons decayed is over: both effects were painted and
\* the list is empty again
C11_Witness ==
    /\ TickOver
    /\ Len(created) = 2
    /\ Len(drawn) = 2
    /\ decay_effects = <<>>

====
